---- MODULE Spec2Model ----
(***************************************************************************)
(* kubectl-gitlab_bootstrap: one invocation of the plugin is the pipeline  *)
(* Complete -> Validate -> Run (CreateServiceAccount,                      *)
(* CreateClusterRoleBinding, SaveServiceAccountToken, AddClusterToGitLab). *)
(* The model keeps the options aggregate, the position of the invocation,  *)
(* the Kubernetes objects the plugin reads and creates, and the log of the *)
(* API calls of the current invocation.  Every API call is one step, so    *)
(* that the cluster's token controller can act between two calls.          *)
(***************************************************************************)
EXTENDS Integers, Sequences, FiniteSets, TLC

VARIABLES
    run,          \* number of the current invocation of the plugin
    pc,           \* position of the current invocation
    args,         \* positional arguments of the command line
    flags,        \* flag values of the command line
    envToken,     \* value of env["GITLAB_API_TOKEN"]
    o,            \* the GitLabBootstrapOptions aggregate
    tokenName,    \* local variable of SaveServiceAccountToken
    err,          \* the error RunE returned (Nil while running or on success)
    failedIn,     \* the function that produced err
    calls,        \* API calls issued by the current invocation, in order
    stdout,       \* lines printed by the current invocation
    sa,           \* ServiceAccount kube-system/gitlab-admin in the cluster
    crb,          \* ClusterRoleBinding gitlab-admin in the cluster
    secrets,      \* Secrets of namespace kube-system, by name
    created       \* successful creations since the first invocation, by kind

vars == <<run, pc, args, flags, envToken, o, tokenName, err, failedIn, calls, stdout,
          sa, crb, secrets, created>>

cluster == <<sa, crb, secrets>>

-----------------------------------------------------------------------------
(* Bounds *)

MaxRuns == 2

-----------------------------------------------------------------------------
(* Errors: an error is the chain of its messages, outermost first. *)

Nil == <<>>

Errorf(msg) == <<msg>>

\* github.com/pkg/errors: Wrap returns nil when the wrapped error is nil.
Wrap(e, msg) == IF e = Nil THEN Nil ELSE <<msg>> \o e

-----------------------------------------------------------------------------
(* Names.  A name is the sequence of its characters, so that the match of  *)
(* the pattern "^gitlab-admin-token-" is computed on the characters.       *)

TokenPattern ==
    <<"g","i","t","l","a","b","-","a","d","m","i","n","-","t","o","k","e","n","-">>

\* The pattern without its anchor: a match anywhere in the name.
MatchStringUnanchored(name) ==
    \E i \in 1..Len(name) :
        /\ i + Len(TokenPattern) - 1 <= Len(name)
        /\ SubSeq(name, i, i + Len(TokenPattern) - 1) = TokenPattern

\* regexp.MatchString("^gitlab-admin-token-", name): the pattern is a literal
\* anchored at the start, so it matches exactly the names that begin with it.
MatchString(name) ==
    /\ Len(name) >= Len(TokenPattern)
    /\ SubSeq(name, 1, Len(TokenPattern)) = TokenPattern

SecFoo == <<"f","o","o">>
SecTokA == TokenPattern \o <<"a","b","c","1","2","3">>
SecTokB == TokenPattern \o <<"x","y","z">>
SecInner == <<"m","y","-">> \o TokenPattern \o <<"q">>
SecShort == <<"g","i","t","l","a","b","-","a","d","m","i","n","-","t","o","k","e","n">>
NoName == <<>>

-----------------------------------------------------------------------------
(* Kubernetes objects *)

NoObj == [kind |-> "none"]

\* v1.ServiceAccount{ObjectMeta: metav1.ObjectMeta{Name: "gitlab-admin"}}
saSpec == [kind |-> "ServiceAccount", name |-> "gitlab-admin", other |-> "unset"]

crbSubject == [Kind |-> "ServiceAccount", Name |-> "gitlab-admin", Namespace |-> "kube-system"]

roleRef == [Name |-> "cluster-admin", Kind |-> "ClusterRole"]

crbSpec == [kind |-> "ClusterRoleBinding", name |-> "gitlab-admin",
            Subjects |-> <<crbSubject>>, RoleRef |-> roleRef]

\* The object the API server stores for a created spec.
Stored(spec, by) == [spec |-> spec, createdBy |-> by]

StoredSA(spec, by, refs) == [spec |-> spec, createdBy |-> by, Secrets |-> refs]

Exists(obj) == obj # NoObj

SecretObj(data) == [kind |-> "Secret", Data |-> data]

\* string(secret.Data["token"]): a missing key reads as the empty string.
DataToken(secret) ==
    IF "token" \in DOMAIN secret.Data THEN secret.Data["token"] ELSE ""

TokenOf(name) == IF name = SecTokA THEN "token-abc123"
                 ELSE IF name = SecTokB THEN "token-xyz" ELSE "token-q"

GetSecretObj(name) == IF name \in DOMAIN secrets THEN secrets[name] ELSE NoObj

-----------------------------------------------------------------------------
(* The options aggregate *)

\* NewGitLabBootstrapOptions, then the flags cobra parsed into the aggregate
NewGitLabBootstrapOptions(f) ==
    [ GitLabAPIToken |-> f.token, GitLabProjectID |-> "", GitLabURL |-> f.url,
      GitLabGroupCluster |-> f.group, KubeConfigFlag |-> f.kubeconfig,
      KubeConfig |-> "", KubeAPI |-> [set |-> FALSE], ClusterName |-> "", ClusterHost |-> "", ClusterCA |-> "",
      KubeClientSet |-> FALSE, ServiceAccountToken |-> "",
      GitLabAPI |-> [set |-> FALSE] ]

ArgLists == { <<>>, <<"">>, <<"42">>, <<"42", "43">> }
TokenFlags == {"", "flag-token"}
EnvTokens == {"", "env-token"}
UrlFlags == {"", "https://gitlab.example"}
KubeConfigFlags == {"", "/etc/kubeconfig"}

FlagSets ==
    [token : TokenFlags, url : UrlFlags, group : BOOLEAN, kubeconfig : KubeConfigFlags]

-----------------------------------------------------------------------------
(* Inputs read by Complete *)

\* os.UserHomeDir()
HomeDirs == { [ok |-> FALSE], [ok |-> TRUE, dir |-> "/home/user"] }

\* filepath.Join(home, ".kube", "config")
Join(home) == home \o "/.kube/config"

\* clientcmd.BuildConfigFromFlags("", o.KubeConfig)
BuildResults ==
    { [ok |-> FALSE],
      [ok |-> TRUE, Host |-> "https://k8s.example:6443", CAData |-> "PEM"] }

TwoContexts ==
    [c \in {"ctx-a", "ctx-b"} |->
        [Cluster |-> IF c = "ctx-a" THEN "cluster-a" ELSE "cluster-b"]]

\* clientcmd.LoadFromFile(o.KubeConfig): the clientcmdapi.Config of the file
LoadResults ==
    { [ok |-> FALSE] }
    \cup { [ok |-> TRUE, Contexts |-> <<>>, CurrentContext |-> cur] :
              cur \in {"", "ctx-a"} }
    \cup { [ok |-> TRUE, Contexts |-> TwoContexts, CurrentContext |-> cur] :
              cur \in {"", "ctx-a", "ctx-b", "ctx-z"} }

\* kubernetes.NewForConfig(config)
ClientsetResults == BOOLEAN

NilPtr == [nil |-> TRUE]

\* m[k] on a Go map of pointers: the zero value (nil) for a missing key
MapIndex(m, k) == IF k \in DOMAIN m THEN m[k] ELSE NilPtr

-----------------------------------------------------------------------------
(* Control flow helpers *)

\* A caller that drops the error of the stage and goes on.
ReturnUnchecked(fn, e, next) ==
    /\ pc' = next
    /\ UNCHANGED <<err, failedIn>>

\* `if err := f(); err != nil { return err }` in RunE and Run
Return(fn, e, next) ==
    IF e = Nil
    THEN /\ pc' = next
         /\ UNCHANGED <<err, failedIn>>
    ELSE /\ pc' = "Failed"
         /\ err' = e
         /\ failedIn' = fn

Panic == pc' = "Panicked" /\ UNCHANGED <<err, failedIn>>

NoBody == [none |-> TRUE]

\* One API call of the invocation: the function that issues it, the
\* operation, the name asked for, the object as the server held it when the
\* call was served, the outcome, and the payload sent or received.
Issue(fn, op, name, pre, res, body) ==
    calls' = Append(calls, [fn |-> fn, op |-> op, name |-> name, pre |-> pre,
                            res |-> res, body |-> body])

\* Outcomes the API server can give: a GET finds the object, reports
\* not-found, or fails for another reason (timeout, forbidden, ...).
GetOutcomes(obj) == IF Exists(obj) THEN {"ok", "error"} ELSE {"notfound", "error"}

CreateOutcomes(obj) == IF Exists(obj) THEN {"alreadyexists", "error"} ELSE {"ok", "error"}

ApiErr(res) == IF res = "ok" THEN Nil ELSE Errorf(res)

GitLabOutcomes == {"ok", "error"}

-----------------------------------------------------------------------------
(* Complete sets all configs required *)

CompleteBody(home, config, api, clientset) ==
    IF Len(args) # 1
    THEN /\ Return("Complete", Errorf("GitLab project id is required"), "Validate")
         /\ UNCHANGED o
    ELSE
    LET o1 == [o EXCEPT !.GitLabProjectID = args[1],
                        !.GitLabAPIToken = IF @ = "" THEN envToken ELSE @]
    IN
    IF o1.KubeConfigFlag = "" /\ ~home.ok
    THEN /\ Return("Complete", Wrap(Errorf("home"), "can't get home dir"), "Validate")
         /\ o' = o1
    ELSE
    LET o2 == [o1 EXCEPT !.KubeConfig =
                  IF o1.KubeConfigFlag # "" THEN o1.KubeConfigFlag ELSE Join(home.dir)]
    IN
    IF ~config.ok
    THEN /\ Return("Complete",
                   Wrap(Errorf("build"), "error building config from kubeconfig path"),
                   "Validate")
         /\ o' = o2
    ELSE
    LET o3 == [o2 EXCEPT !.ClusterHost = config.Host, !.ClusterCA = config.CAData]
    IN
    IF ~api.ok
    THEN /\ Return("Complete",
                   Wrap(Errorf("load"), "error creating clientcmdapi from kubeconfig path"),
                   "Validate")
         /\ o' = o3
    ELSE
    LET o3a == [o3 EXCEPT !.KubeAPI = [set |-> TRUE, Contexts |-> api.Contexts,
                                       CurrentContext |-> api.CurrentContext]]
    IN
    IF Cardinality(DOMAIN api.Contexts) < 1
    THEN /\ Return("Complete", Errorf("no contexts found in kubeconfig"), "Validate")
         /\ o' = o3a
    ELSE IF api.CurrentContext = ""
    THEN /\ Return("Complete", Errorf("no context currently set"), "Validate")
         /\ o' = o3a
    ELSE
    LET context == MapIndex(api.Contexts, api.CurrentContext)
    IN
    IF context = NilPtr
    THEN \* api.Contexts[api.CurrentContext].Cluster dereferences a nil *Context
         /\ Panic
         /\ o' = o3a
    ELSE
    LET o4 == [o3a EXCEPT !.ClusterName = context.Cluster]
    IN
    IF ~clientset
    THEN /\ Return("Complete",
                   Wrap(Errorf("clientset"), "error creating clientset from config"),
                   "Validate")
         /\ o' = o4
    ELSE /\ Return("Complete", Nil, "Validate")
         /\ o' = [o4 EXCEPT !.KubeClientSet = TRUE]

Complete ==
    /\ pc = "Complete"
    /\ \E home \in HomeDirs, config \in BuildResults, api \in LoadResults,
          clientset \in ClientsetResults :
          CompleteBody(home, config, api, clientset)
    /\ UNCHANGED <<run, args, flags, envToken, tokenName, calls, stdout, sa, crb, secrets, created>>

-----------------------------------------------------------------------------
(* Validate ensures that all configs are valid *)

DefaultBaseURL == "https://gitlab.com"

\* gitlab.NewClient(nil, token), then SetBaseURL when a URL was given
NewClient(token, url) ==
    [set |-> TRUE, token |-> token,
     baseURL |-> IF url # "" THEN url ELSE DefaultBaseURL]

\* A validator that ignores --gitlab-use-group.
LookupOpProjectOnly(group) == "Projects.GetProject"

LookupOp(group) == IF group THEN "Groups.GetGroup" ELSE "Projects.GetProject"

LookupMsg(group) ==
    IF group THEN "unable to get GitLab group" ELSE "unable to get GitLab project"

\* A validator that checks the id alone.
CheckCredentialsIdOnly(token, id) ==
    IF id = "" THEN Errorf("GitLab project id is required") ELSE Nil

\* The two emptiness checks at the head of Validate
CheckCredentials(token, id) ==
    IF token = "" THEN Errorf("GitLab API token is required")
    ELSE IF id = "" THEN Errorf("GitLab project id is required")
    ELSE Nil

Validate ==
    /\ pc = "Validate"
    /\ IF CheckCredentials(o.GitLabAPIToken, o.GitLabProjectID) # Nil
       THEN /\ Return("Validate", CheckCredentials(o.GitLabAPIToken, o.GitLabProjectID),
                      "CreateServiceAccount")
            /\ UNCHANGED <<o, calls>>
       ELSE \E res \in GitLabOutcomes :
            /\ o' = [o EXCEPT !.GitLabAPI = NewClient(o.GitLabAPIToken, o.GitLabURL)]
            /\ Issue("Validate", LookupOp(o.GitLabGroupCluster), o.GitLabProjectID, NoObj, res, NoBody)
            /\ Return("Validate", Wrap(ApiErr(res), LookupMsg(o.GitLabGroupCluster)),
                      "CreateServiceAccount")
    /\ UNCHANGED <<run, args, flags, envToken, tokenName, stdout, sa, crb, secrets, created>>

-----------------------------------------------------------------------------
(* CreateServiceAccount creates the gitlab-admin ServiceAccount *)

\* A bootstrapper that reconciles: a ServiceAccount it finds is rewritten to
\* the spec it would have created.
CreateServiceAccountReconciling ==
    /\ pc = "CreateServiceAccount"
    /\ \E res \in GetOutcomes(sa) :
          /\ Issue("CreateServiceAccount", "ServiceAccounts.Get", "gitlab-admin", sa, res, NoBody)
          /\ IF ApiErr(res) # Nil
             THEN /\ pc' = "CreateServiceAccount.Create"
                  /\ UNCHANGED <<stdout, sa>>
             ELSE /\ stdout' = Append(stdout, "Using existing gitlab-admin account")
                  /\ sa' = [sa EXCEPT !.spec = saSpec]
                  /\ pc' = "CreateClusterRoleBinding"
    /\ UNCHANGED <<run, args, flags, envToken, o, tokenName, err, failedIn, crb, secrets, created>>

\* sai.Get("gitlab-admin"): `if err != nil` sends every failed GET to Create.
CreateServiceAccount ==
    /\ pc = "CreateServiceAccount"
    /\ \E res \in GetOutcomes(sa) :
          /\ Issue("CreateServiceAccount", "ServiceAccounts.Get", "gitlab-admin", sa, res, NoBody)
          /\ IF ApiErr(res) # Nil
             THEN /\ pc' = "CreateServiceAccount.Create"
                  /\ UNCHANGED stdout
             ELSE /\ stdout' = Append(stdout, "Using existing gitlab-admin account")
                  /\ pc' = "CreateClusterRoleBinding"
    /\ UNCHANGED <<run, args, flags, envToken, o, tokenName, err, failedIn, sa, crb, secrets, created>>

\* sai.Create(saSpec)
CreateServiceAccountCreate ==
    /\ pc = "CreateServiceAccount.Create"
    /\ \E res \in CreateOutcomes(sa) :
          /\ Issue("CreateServiceAccount", "ServiceAccounts.Create", "gitlab-admin", sa, res, saSpec)
          /\ IF res = "ok"
             THEN /\ sa' = StoredSA(saSpec, run, <<>>)
                  /\ created' = [created EXCEPT !.ServiceAccount = @ + 1]
             ELSE UNCHANGED <<sa, created>>
          /\ Return("CreateServiceAccount",
                    Wrap(ApiErr(res), "unable to create service account"),
                    "CreateClusterRoleBinding")
    /\ UNCHANGED <<run, args, flags, envToken, o, tokenName, stdout, crb, secrets>>

-----------------------------------------------------------------------------
(* CreateClusterRoleBinding creates the gitlab-admin ClusterRoleBinding *)

CreateClusterRoleBinding ==
    /\ pc = "CreateClusterRoleBinding"
    /\ \E res \in GetOutcomes(crb) :
          /\ Issue("CreateClusterRoleBinding", "ClusterRoleBindings.Get", "gitlab-admin", crb, res,
                   NoBody)
          /\ IF ApiErr(res) # Nil
             THEN /\ pc' = "CreateClusterRoleBinding.Create"
                  /\ UNCHANGED stdout
             ELSE /\ stdout' = Append(stdout, "Using existing clusterrolebinding")
                  /\ pc' = "SaveServiceAccountToken"
    /\ UNCHANGED <<run, args, flags, envToken, o, tokenName, err, failedIn, sa, crb, secrets, created>>

CreateClusterRoleBindingCreate ==
    /\ pc = "CreateClusterRoleBinding.Create"
    /\ \E res \in CreateOutcomes(crb) :
          /\ Issue("CreateClusterRoleBinding", "ClusterRoleBindings.Create", "gitlab-admin", crb,
                   res, crbSpec)
          /\ IF res = "ok"
             THEN /\ crb' = Stored(crbSpec, run)
                  /\ created' = [created EXCEPT !.ClusterRoleBinding = @ + 1]
             ELSE UNCHANGED <<crb, created>>
          /\ Return("CreateClusterRoleBinding",
                    Wrap(ApiErr(res), "unable to create clusterrolebinding"),
                    "SaveServiceAccountToken")
    /\ UNCHANGED <<run, args, flags, envToken, o, tokenName, stdout, sa, secrets>>

-----------------------------------------------------------------------------
(* SaveServiceAccountToken saves the gitlab-admin ServiceAccount token *)

\* The loop over sa.Secrets: the first name the pattern matches, "" if none.
RECURSIVE FirstMatch(_)
FirstMatch(refs) ==
    IF refs = <<>> THEN NoName
    ELSE IF MatchString(Head(refs)) THEN Head(refs)
    ELSE FirstMatch(Tail(refs))

\* sai.Get("gitlab-admin") and the scan of the secret references
SaveServiceAccountToken ==
    /\ pc = "SaveServiceAccountToken"
    /\ \E res \in GetOutcomes(sa) :
          /\ Issue("SaveServiceAccountToken", "ServiceAccounts.Get", "gitlab-admin", sa, res,
                   IF res = "ok" THEN sa ELSE NoBody)
          /\ IF ApiErr(res) # Nil
             THEN /\ Return("SaveServiceAccountToken",
                            Wrap(ApiErr(res), "unable to get serviceaccount"),
                            "SaveServiceAccountToken.Secret")
                  /\ UNCHANGED tokenName
             ELSE /\ tokenName' = FirstMatch(sa.Secrets)
                  /\ Return("SaveServiceAccountToken", Nil, "SaveServiceAccountToken.Secret")
    /\ UNCHANGED <<run, args, flags, envToken, o, stdout, sa, crb, secrets, created>>

\* si.Get(tokenName) and the read of the token.  When the scan matched
\* nothing tokenName is "": no Secret has that name, so the GET cannot succeed.
SaveServiceAccountTokenSecret ==
    /\ pc = "SaveServiceAccountToken.Secret"
    /\ \E res \in GetOutcomes(GetSecretObj(tokenName)) :
          LET getErr == ApiErr(res)
              secret == GetSecretObj(tokenName)
          IN
          /\ Issue("SaveServiceAccountToken", "Secrets.Get", tokenName, secret, res,
                   IF res = "ok" THEN secret ELSE NoBody)
          /\ IF getErr # Nil
             THEN /\ Return("SaveServiceAccountToken",
                            Wrap(getErr, "unable to get serviceaccount token"),
                            "AddClusterToGitLab")
                  /\ UNCHANGED o
             ELSE IF DataToken(secret) = ""
             THEN \* err is the nil error of the Secret GET here
                  /\ Return("SaveServiceAccountToken",
                            Wrap(getErr, "no data in serviceaccount token"),
                            "AddClusterToGitLab")
                  /\ UNCHANGED o
             ELSE /\ o' = [o EXCEPT !.ServiceAccountToken = DataToken(secret)]
                  /\ Return("SaveServiceAccountToken", Nil, "AddClusterToGitLab")
    /\ UNCHANGED <<run, args, flags, envToken, tokenName, stdout, sa, crb, secrets, created>>

-----------------------------------------------------------------------------
(* AddClusterToGitLab adds the Kubernetes cluster to the GitLab group or project *)

clusterOpts ==
    [ Name |-> o.ClusterName, EnvironmentScope |-> "*",
      PlatformKubernetes |-> [APIURL |-> o.ClusterHost,
                              Token |-> o.ServiceAccountToken,
                              CaCert |-> o.ClusterCA] ]

AddOp(group) == IF group THEN "GroupCluster.AddCluster" ELSE "ProjectCluster.AddCluster"

AddMsg(group) ==
    IF group THEN "unable to assign kubernetes cluster to group"
    ELSE "unable to assign kubernetes cluster to project"

AddedMsg(group) ==
    IF group THEN "Cluster successfully added to group!"
    ELSE "Cluster successfully added to project!"

\* The response of a successful add-cluster call
Responses == { [ID |-> 42, WebURL |-> "https://gitlab.example/proj"] }

\* fmt.Sprintf("%s/clusters/%d", WebURL, ID)
gitlabClusterURL(resp) == <<resp.WebURL, "/clusters/", resp.ID>>

AddClusterToGitLab ==
    /\ pc = "AddClusterToGitLab"
    /\ \E res \in GitLabOutcomes, resp \in Responses :
          /\ Issue("AddClusterToGitLab", AddOp(o.GitLabGroupCluster), o.GitLabProjectID, NoObj,
                   res, clusterOpts)
          /\ IF ApiErr(res) # Nil
             THEN UNCHANGED stdout
             ELSE stdout' = stdout \o <<AddedMsg(o.GitLabGroupCluster), gitlabClusterURL(resp)>>
          /\ Return("AddClusterToGitLab",
                    Wrap(ApiErr(res), AddMsg(o.GitLabGroupCluster)), "Registered")
    /\ UNCHANGED <<run, args, flags, envToken, o, tokenName, sa, crb, secrets, created>>

-----------------------------------------------------------------------------
(* The cluster's token controller: some time after a ServiceAccount exists *)
(* it creates a token Secret and attaches its reference to the account.    *)

TokenController ==
    /\ Exists(sa)
    /\ FirstMatch(sa.Secrets) = NoName
    /\ \E n \in {SecTokA, SecTokB} :
          /\ n \notin DOMAIN secrets
          /\ secrets' = [m \in DOMAIN secrets \cup {n} |->
                            IF m = n THEN SecretObj([token |-> TokenOf(n)]) ELSE secrets[m]]
          /\ sa' = [sa EXCEPT !.Secrets = Append(@, n)]
    /\ UNCHANGED <<run, pc, args, flags, envToken, o, tokenName, err, failedIn, calls, stdout,
                   crb, created>>

-----------------------------------------------------------------------------
(* Invocations *)

Terminal == {"Registered", "Failed", "Panicked"}

\* The process has exited; the same command line is run again on the same
\* cluster, with a freshly constructed options aggregate.
NewRun ==
    /\ pc \in Terminal
    /\ run < MaxRuns
    /\ run' = run + 1
    /\ o' = NewGitLabBootstrapOptions(flags)
    /\ pc' = "Complete"
    /\ tokenName' = NoName
    /\ err' = Nil
    /\ failedIn' = "-"
    /\ calls' = <<>>
    /\ stdout' = <<>>
    /\ UNCHANGED <<args, flags, envToken, sa, crb, secrets, created>>

-----------------------------------------------------------------------------
(* The cluster before the first invocation *)

InitRefLists == { <<>>, <<SecFoo, SecTokA>>, <<SecInner, SecTokB, SecTokA>>, <<SecShort>> }

InitSAs ==
    {NoObj, StoredSA(saSpec, 0, <<>>)} \cup
    { StoredSA([saSpec EXCEPT !.other = "labels"], 0, refs) : refs \in InitRefLists }

InitCRBs ==
    {NoObj} \cup
    { Stored(spec, 0) :
        spec \in {crbSpec, [crbSpec EXCEPT !.RoleRef = [Name |-> "view", Kind |-> "ClusterRole"]]} }

SecretVariants ==
    { SecretObj([token |-> "token-abc123"]), SecretObj([token |-> ""]),
      SecretObj([namespace |-> "kube-system"]) }

InitSecrets ==
    LET base == [n \in {SecInner} |-> SecretObj([token |-> TokenOf(n)])]
        withB(f) == [n \in DOMAIN f \cup {SecTokB} |->
                        IF n = SecTokB THEN SecretObj([token |-> TokenOf(n)]) ELSE f[n]]
        withA(f, v) == [n \in DOMAIN f \cup {SecTokA} |-> IF n = SecTokA THEN v ELSE f[n]]
        bs == {base, withB(base)}
    IN bs \cup { withA(base, v) : v \in SecretVariants }
          \cup { withA(withB(base), SecretObj([token |-> TokenOf(SecTokA)])) }

Init ==
    /\ run = 1
    /\ pc = "Complete"
    /\ args \in ArgLists
    /\ envToken \in EnvTokens
    /\ flags \in FlagSets
    /\ o = NewGitLabBootstrapOptions(flags)
    /\ tokenName = NoName
    /\ err = Nil
    /\ failedIn = "-"
    /\ calls = <<>>
    /\ stdout = <<>>
    /\ sa \in InitSAs
    /\ crb \in InitCRBs
    /\ secrets \in InitSecrets
    /\ created = [ServiceAccount |-> 0, ClusterRoleBinding |-> 0]

Next ==
    \/ Complete
    \/ Validate
    \/ CreateServiceAccount
    \/ CreateServiceAccountCreate
    \/ CreateClusterRoleBinding
    \/ CreateClusterRoleBindingCreate
    \/ SaveServiceAccountToken
    \/ SaveServiceAccountTokenSecret
    \/ AddClusterToGitLab
    \/ TokenController
    \/ NewRun

Spec == Init /\ [][Next]_vars

-----------------------------------------------------------------------------
(* Vocabulary of the properties *)

Idx == DOMAIN calls

CallsBy(fn, op) == { i \in Idx : calls[i].fn = fn /\ calls[i].op = op }

LookupOps == {"Groups.GetGroup", "Projects.GetProject"}
AddClusterOps == {"GroupCluster.AddCluster", "ProjectCluster.AddCluster"}
GroupOps == {"Groups.GetGroup", "GroupCluster.AddCluster"}
ProjectOps == {"Projects.GetProject", "ProjectCluster.AddCluster"}
KubeOps == {"ServiceAccounts.Get", "ServiceAccounts.Create", "ClusterRoleBindings.Get",
            "ClusterRoleBindings.Create", "Secrets.Get"}

AddClusterCalls == { i \in Idx : calls[i].op \in AddClusterOps }

\* The names of the model that begin with "gitlab-admin-token-"
PrefixedNames == {SecTokA, SecTokB}

HasTokenRef(refs) == \E k \in DOMAIN refs : refs[k] \in PrefixedNames

FirstTokenRef(refs) ==
    refs[CHOOSE k \in DOMAIN refs :
            /\ refs[k] \in PrefixedNames
            /\ \A j \in 1..(k - 1) : refs[j] \notin PrefixedNames]

\* The error taxonomy, by the message the code gives the error
MissingArgument == failedIn = "Complete" /\ err = <<"GitLab project id is required">>
MissingCredential ==
    /\ failedIn = "Validate"
    /\ err \in {<<"GitLab API token is required">>, <<"GitLab project id is required">>}
SecretFetchError ==
    /\ failedIn = "SaveServiceAccountToken"
    /\ err # Nil
    /\ Head(err) = "unable to get serviceaccount token"
EmptyToken ==
    /\ failedIn = "SaveServiceAccountToken"
    /\ err # Nil
    /\ Head(err) = "no data in serviceaccount token"
ProvisioningError(fn) ==
    /\ failedIn = fn
    /\ err # Nil
    /\ Head(err) = (IF fn = "CreateServiceAccount" THEN "unable to create service account"
                    ELSE "unable to create clusterrolebinding")

-----------------------------------------------------------------------------
\* C1: the add-cluster call is issued only with a non-empty ServiceAccount
\* token; when the Secret fetched by token extraction has a blank or absent
\* `token` field, SaveServiceAccountToken returns the EmptyToken error, the run
\* is Failed and no add-cluster call is made.
C1_RegistrationTokenNonEmpty ==
    /\ \A i \in AddClusterCalls : calls[i].body.PlatformKubernetes.Token # ""
    /\ \A i \in CallsBy("SaveServiceAccountToken", "Secrets.Get") :
          (calls[i].res = "ok" /\ DataToken(calls[i].body) = "")
             => /\ pc = "Failed"
                /\ EmptyToken
                /\ AddClusterCalls = {}

\* C2: token extraction selects the first secret reference whose name starts
\* with gitlab-admin-token-; over a ServiceAccount with no such reference it
\* fails with TokenNotFound, an outcome distinct from SecretFetchError.
C2_NoMatchIsTokenNotFound ==
    \A i \in CallsBy("SaveServiceAccountToken", "ServiceAccounts.Get") :
       calls[i].res = "ok" =>
          /\ HasTokenRef(calls[i].body.Secrets)
                => tokenName = FirstTokenRef(calls[i].body.Secrets)
          /\ (~HasTokenRef(calls[i].body.Secrets) /\ pc # "SaveServiceAccountToken.Secret")
                => /\ pc = "Failed"
                   /\ failedIn = "SaveServiceAccountToken"
                   /\ ~SecretFetchError

\* C3: a ServiceAccount (ClusterRoleBinding) that exists when its step runs
\* gets no CREATE call, stays as it was and the step succeeds; over repeated
\* runs each resource is created at most once.
C3_ExistingResourceReused ==
    /\ \A i \in Idx :
          calls[i].op \in {"ServiceAccounts.Create", "ClusterRoleBindings.Create"}
             => ~Exists(calls[i].pre)
    /\ \A i \in CallsBy("CreateServiceAccount", "ServiceAccounts.Get") :
          Exists(calls[i].pre)
             => /\ ~(pc = "Failed" /\ failedIn = "CreateServiceAccount")
                /\ sa.spec = calls[i].pre.spec
                /\ sa.createdBy = calls[i].pre.createdBy
    /\ \A i \in CallsBy("CreateClusterRoleBinding", "ClusterRoleBindings.Get") :
          Exists(calls[i].pre)
             => /\ ~(pc = "Failed" /\ failedIn = "CreateClusterRoleBinding")
                /\ crb = calls[i].pre
    /\ created.ServiceAccount <= 1
    /\ created.ClusterRoleBinding <= 1

GetOpOf(fn) ==
    IF fn = "CreateServiceAccount" THEN "ServiceAccounts.Get" ELSE "ClusterRoleBindings.Get"

CreateOpOf(fn) ==
    IF fn = "CreateServiceAccount" THEN "ServiceAccounts.Create"
    ELSE "ClusterRoleBindings.Create"

ProvisioningSteps == {"CreateServiceAccount", "CreateClusterRoleBinding"}

\* C4: for the ServiceAccount and the ClusterRoleBinding, a CREATE is issued
\* if and only if the preceding GET reported not-found, then exactly one (the
\* ServiceAccount with only its name set); a CREATE error ends the run with
\* ProvisioningError and a GET error never by itself ends the run.
C4_CreateIffNotFound ==
    \A fn \in ProvisioningSteps :
       LET gets == CallsBy(fn, GetOpOf(fn))
           creates == CallsBy(fn, CreateOpOf(fn))
       IN
       /\ Cardinality(gets) <= 1
       /\ Cardinality(creates) <= 1
       /\ creates # {} => \E g \in gets : calls[g].res = "notfound"
       /\ ((\E g \in gets : calls[g].res = "notfound") /\ pc # fn \o ".Create")
             => Cardinality(creates) = 1
       /\ \A c \in creates :
             /\ fn = "CreateServiceAccount" => calls[c].body = saSpec
             /\ calls[c].res # "ok" => (pc = "Failed" /\ ProvisioningError(fn))
       /\ (pc = "Failed" /\ failedIn = fn)
             => \E c \in creates : calls[c].res # "ok"

-----------------------------------------------------------------------------
(* The command line of the run *)

IdAbsent == Len(args) = 0
IdEmpty == Len(args) = 1 /\ args[1] = ""
\* The GitLab token after the GITLAB_API_TOKEN fallback
ResolvedToken == IF flags.token = "" THEN envToken ELSE flags.token
TokenEmpty == ResolvedToken = ""

\* C5 as stated: no network call in a run whose id is absent or whose id or
\* token is empty; the absent id fails in the resolver with MissingArgument,
\* the empty id or token fails in the validator with MissingCredential.
C5_EmptyCredentialFailsInValidator ==
    /\ (IdAbsent \/ IdEmpty \/ TokenEmpty) => calls = <<>>
    /\ (IdAbsent /\ pc = "Failed") => MissingArgument
    /\ (~IdAbsent /\ (IdEmpty \/ TokenEmpty) /\ pc = "Failed") => MissingCredential

\* C5 amended: no network call in a run whose id is absent or whose id or
\* token is empty; the absent id fails in the resolver with MissingArgument;
\* with an empty id or token the run never gets past the validator, which
\* fails with MissingCredential whenever the resolver returned success.
C5_NoCallWithoutCredentials ==
    /\ (IdAbsent \/ IdEmpty \/ TokenEmpty)
          => /\ calls = <<>>
             /\ pc \in {"Complete", "Validate", "Failed", "Panicked"}
             /\ pc = "Failed" => failedIn \in {"Complete", "Validate"}
    /\ (IdAbsent /\ pc = "Failed") => MissingArgument
    /\ ((IdEmpty \/ TokenEmpty) /\ pc = "Failed" /\ failedIn = "Validate")
          => MissingCredential

\* The validator has rejected an empty token that the resolver let through.
C5_Witness ==
    /\ TokenEmpty
    /\ ~IdAbsent
    /\ o.KubeClientSet
    /\ pc = "Failed"
    /\ MissingCredential

-----------------------------------------------------------------------------
(* Stages *)

Stages == <<"Complete", "Validate", "CreateServiceAccount", "CreateClusterRoleBinding",
            "SaveServiceAccountToken", "AddClusterToGitLab">>

StageRank(fn) == CHOOSE k \in DOMAIN Stages : Stages[k] = fn

\* The stage a position belongs to
StageOf(p) ==
    IF p = "CreateServiceAccount.Create" THEN "CreateServiceAccount"
    ELSE IF p = "CreateClusterRoleBinding.Create" THEN "CreateClusterRoleBinding"
    ELSE IF p = "SaveServiceAccountToken.Secret" THEN "SaveServiceAccountToken"
    ELSE p

\* How far the run has come: the stage it is in, or the one it ended in
Progress ==
    IF pc = "Registered" THEN Len(Stages) + 1
    ELSE IF pc = "Failed" THEN StageRank(failedIn)
    ELSE IF pc = "Panicked" THEN 1
    ELSE StageRank(StageOf(pc))

OkCall(fn, op) == \E i \in CallsBy(fn, op) : calls[i].res = "ok"

\* The stage returned success, as the log of its calls and the aggregate show
Succeeded(fn) ==
    IF fn = "Complete" THEN o.KubeClientSet
    ELSE IF fn = "Validate"
         THEN o.GitLabAPI.set /\ \E op \in LookupOps : OkCall(fn, op)
    ELSE IF fn \in ProvisioningSteps
         THEN \/ OkCall(fn, GetOpOf(fn))
              \/ OkCall(fn, CreateOpOf(fn))
    ELSE IF fn = "SaveServiceAccountToken"
         THEN OkCall(fn, "ServiceAccounts.Get") /\ OkCall(fn, "Secrets.Get")
    ELSE \E op \in AddClusterOps : OkCall(fn, op)

StagesInOrder ==
    /\ \A i, j \in Idx : i < j => StageRank(calls[i].fn) <= StageRank(calls[j].fn)
    /\ \A i \in Idx : StageRank(calls[i].fn) <= Progress
    /\ \A k \in DOMAIN Stages :
          (k < Progress /\ pc # "Panicked") => Succeeded(Stages[k])
    /\ pc = "Failed" <=> err # Nil
    /\ pc = "Failed" => ~Succeeded(failedIn)
    /\ pc = "Registered" => \A k \in DOMAIN Stages : Succeeded(Stages[k])

Successor(p) ==
    IF p = "Complete" THEN {"Validate"}
    ELSE IF p = "Validate" THEN {"CreateServiceAccount"}
    ELSE IF p = "CreateServiceAccount"
         THEN {"CreateServiceAccount.Create", "CreateClusterRoleBinding"}
    ELSE IF p = "CreateServiceAccount.Create" THEN {"CreateClusterRoleBinding"}
    ELSE IF p = "CreateClusterRoleBinding"
         THEN {"CreateClusterRoleBinding.Create", "SaveServiceAccountToken"}
    ELSE IF p = "CreateClusterRoleBinding.Create" THEN {"SaveServiceAccountToken"}
    ELSE IF p = "SaveServiceAccountToken" THEN {"SaveServiceAccountToken.Secret"}
    ELSE IF p = "SaveServiceAccountToken.Secret" THEN {"AddClusterToGitLab"}
    ELSE IF p = "AddClusterToGitLab" THEN {"Registered"}
    ELSE {}

\* Within a run: a move goes to the next position or ends the run, an ended
\* run issues no call and moves no more.
OneWay ==
    run' = run =>
       /\ pc' # pc => pc' \in Successor(pc) \cup {"Failed", "Panicked"}
       /\ pc \in Terminal => (pc' = pc /\ calls' = calls /\ err' = err)
       /\ pc' = "Failed" /\ pc # "Failed" => failedIn' = StageOf(pc)

\* C6: the stages run in the order Complete, Validate, CreateServiceAccount,
\* CreateClusterRoleBinding, SaveServiceAccountToken, AddClusterToGitLab; the
\* first stage that returns an error moves the run to Failed and no later
\* stage performs a call; Registered is reached only after every stage
\* returned success; no run revisits an earlier state.
C6_StagesInOrder == [] StagesInOrder /\ [][OneWay]_vars

\* A run that went through all six stages.
C6_Witness == pc = "Registered" /\ Len(calls) >= 6

-----------------------------------------------------------------------------
\* C7: the target kind of a run is fixed by --gitlab-use-group: with it set
\* only the group lookup and the group add-cluster endpoints are called,
\* with it unset only the project ones; no run calls both kinds, and at most
\* one add-cluster call is issued per run.
C7_TargetKindFixed ==
    /\ o.GitLabGroupCluster = flags.group
    /\ \A i \in Idx :
          calls[i].op \notin KubeOps
             => calls[i].op \in (IF flags.group THEN GroupOps ELSE ProjectOps)
    /\ \A i \in Idx : calls[i].fn = "Validate" => calls[i].op \in LookupOps
    /\ \A i \in Idx : calls[i].fn = "AddClusterToGitLab" => calls[i].op \in AddClusterOps
    /\ Cardinality(AddClusterCalls) <= 1
    /\ Cardinality({ i \in Idx : calls[i].op \in LookupOps }) <= 1

\* A group run that validated and registered.
C7_Witness ==
    /\ flags.group
    /\ pc = "Registered"
    /\ OkCall("Validate", "Groups.GetGroup")
    /\ OkCall("AddClusterToGitLab", "GroupCluster.AddCluster")

-----------------------------------------------------------------------------
(* Effects on the cluster *)

\* A step of the plugin itself (not of the token controller, not a new run)
PluginStep == run' = run /\ (pc' # pc \/ calls' # calls)

\* The verb of a Kubernetes call
KubeVerb(op) ==
    IF op \in {"ServiceAccounts.Get", "ClusterRoleBindings.Get", "Secrets.Get"} THEN "GET"
    ELSE IF op \in {"ServiceAccounts.Create", "ClusterRoleBindings.Create"} THEN "CREATE"
    ELSE "OTHER"

\* A step of the plugin changes no object that exists and adds only the
\* specs of CreateServiceAccount and CreateClusterRoleBinding.
FrameOfStep ==
    /\ PluginStep
          => /\ Exists(sa) => sa' = sa
             /\ Exists(crb) => crb' = crb
             /\ secrets' = secrets
             /\ Exists(sa') /\ ~Exists(sa) => sa' = StoredSA(saSpec, run, <<>>)
             /\ Exists(crb') /\ ~Exists(crb) => crb' = Stored(crbSpec, run)
    /\ run' # run => cluster' = cluster

\* What a run created is in the cluster as created, whatever became of the
\* run; what an earlier run created is found by the GET and not created again.
CreatedStays ==
    /\ \A i \in Idx : calls[i].op \in KubeOps => KubeVerb(calls[i].op) \in {"GET", "CREATE"}
    /\ OkCall("CreateServiceAccount", "ServiceAccounts.Create")
          => /\ Exists(sa)
             /\ sa.spec = saSpec
             /\ sa.createdBy = run
    /\ OkCall("CreateClusterRoleBinding", "ClusterRoleBindings.Create")
          => crb = Stored(crbSpec, run)
    /\ (Exists(sa) /\ sa.createdBy \in 1..(run - 1))
          => /\ ~OkCall("CreateServiceAccount", "ServiceAccounts.Create")
             /\ (pc # "Panicked" /\ Progress > StageRank("CreateServiceAccount"))
                   => /\ OkCall("CreateServiceAccount", "ServiceAccounts.Get")
                      /\ CallsBy("CreateServiceAccount", "ServiceAccounts.Create") = {}
    /\ (Exists(crb) /\ crb.createdBy \in 1..(run - 1))
          => /\ ~OkCall("CreateClusterRoleBinding", "ClusterRoleBindings.Create")
             /\ (pc # "Panicked" /\ Progress > StageRank("CreateClusterRoleBinding"))
                   => /\ OkCall("CreateClusterRoleBinding", "ClusterRoleBindings.Get")
                      /\ CallsBy("CreateClusterRoleBinding", "ClusterRoleBindings.Create") = {}
    /\ created.ServiceAccount <= 1
    /\ created.ClusterRoleBinding <= 1

-----------------------------------------------------------------------------
(* Token extraction against the token controller *)

ExtractionReads == CallsBy("SaveServiceAccountToken", "ServiceAccounts.Get")
SecretReads == CallsBy("SaveServiceAccountToken", "Secrets.Get")

\* No prefixed secret reference was attached when the extraction read the
\* ServiceAccount.
ReadBeforeAttach(i) ==
    \/ ~Exists(calls[i].pre)
    \/ ~HasTokenRef(calls[i].pre.Secrets)

\* The run went on to registration.
WentOnToRegistration ==
    \/ pc \in {"AddClusterToGitLab", "Registered"}
    \/ pc = "Failed" /\ failedIn = "AddClusterToGitLab"

NoWaitBeforeAttach ==
    /\ Cardinality(ExtractionReads) <= 1
    /\ Cardinality(SecretReads) <= 1
    /\ \A i \in ExtractionReads :
          ReadBeforeAttach(i)
             => /\ AddClusterCalls = {}
                /\ pc \in {"SaveServiceAccountToken.Secret", "Failed"}
                /\ pc = "Failed" => failedIn = "SaveServiceAccountToken"

\* C9 as stated: the extraction reads the ServiceAccount once and does not
\* wait; when it runs before the reference is attached the run ends in
\* Failed with no add-cluster call; when the reference and a non-blank token
\* are there first, the run proceeds to registration with that token.
C9_PresentFirstAlwaysRegisters ==
    /\ NoWaitBeforeAttach
    /\ \A i \in ExtractionReads :
          LET n == FirstTokenRef(calls[i].pre.Secrets) IN
          (/\ ~ReadBeforeAttach(i)
           /\ n \in DOMAIN secrets
           /\ DataToken(secrets[n]) # ""
           /\ pc # "SaveServiceAccountToken.Secret")
             => /\ WentOnToRegistration
                /\ o.ServiceAccountToken = DataToken(secrets[n])

\* C9 amended: as stated, but the run proceeds to registration with that
\* token when, in addition, the two GETs of the extraction (of the
\* ServiceAccount and of the Secret) succeed.
C9_SingleShotExtraction ==
    /\ NoWaitBeforeAttach
    /\ \A i \in ExtractionReads :
          (~ReadBeforeAttach(i) /\ calls[i].res = "ok")
             => LET n == FirstTokenRef(calls[i].pre.Secrets) IN
                /\ tokenName = n
                /\ \A j \in SecretReads :
                      /\ calls[j].name = n
                      /\ (calls[j].res = "ok" /\ DataToken(calls[j].body) # "")
                            => /\ WentOnToRegistration
                               /\ o.ServiceAccountToken = DataToken(calls[j].body)
                               /\ \A a \in AddClusterCalls :
                                     calls[a].body.PlatformKubernetes.Token
                                        = DataToken(calls[j].body)

\* The run created the ServiceAccount, the token controller attached the
\* Secret before the extraction read the account, and the token went to GitLab.
C9_Witness ==
    /\ OkCall("CreateServiceAccount", "ServiceAccounts.Create")
    /\ \E i \in ExtractionReads : ~ReadBeforeAttach(i) /\ calls[i].res = "ok"
    /\ \E a \in AddClusterCalls :
          /\ calls[a].body.PlatformKubernetes.Token # ""
          /\ calls[a].body.PlatformKubernetes.Token = o.ServiceAccountToken

====
